---- MODULE Spec2Model ----
(***************************************************************************)
(* A model of the AutoTrader repository:                                   *)
(*   - data/fetch_akshare_data.py  : _normalize_ohlcv                       *)
(*   - data/fetch_tushare_data.py  : fetch_daily (retry loop + rename path) *)
(*   - framework/strategy_base.py, decision/*.py : order tracking           *)
(*                                                                         *)
(* Column headers are written in ASCII.  The Chinese headers of the source *)
(* are transliterated:                                                     *)
(*   "riqi" = 日期, "kaipan" = 开盘, "zuigao" = 最高, "zuidi" = 最低,          *)
(*   "shoupan" = 收盘, "chengjiaoliang" = 成交量,                            *)
(*   "chengjiaoliang(shou)" = 成交量(手), "chengjiaoliang(gu)" = 成交量(股)   *)
(***************************************************************************)
EXTENDS Integers, Sequences, FiniteSets, TLC

VARIABLES
    pc,           \* which call is running / has finished
    df,           \* the raw table: argument of _normalize_ohlcv, or pro.daily's answer
    mapping,      \* the optional custom mapping argument of _normalize_ohlcv
    retry_count,  \* fetch_daily's retry_count argument
    attempt,      \* loop variable of fetch_daily's retry loop
    outcomes,     \* history of vendor calls made by fetch_daily: "ok" / "fail"
    result,       \* what the call returned or raised
    again         \* result of _normalize_ohlcv applied to its own output

dataVars == <<pc, df, mapping, retry_count, attempt, outcomes, result, again>>

VARIABLES
    strategy,     \* the strategy class under test
    size,         \* params.size
    bar,          \* len(self): bars delivered to next() so far
    order,        \* self.order: 0 is None, else the number of the tracked order
    bought,       \* BuyAndHoldStrategy.bought
    bar_executed, \* self.bar_executed
    position,     \* self.position.size, kept by the broker
    orders        \* the broker's orders, in order of issue

stratVars == <<strategy, size, bar, order, bought, bar_executed, position, orders>>

vars == <<dataVars, stratVars>>

----------------------------------------------------------------------------
(* Bounds of the model *)

MaxRows == 2        \* rows of a raw table: 0..MaxRows
MaxDate == 2        \* distinct calendar dates occurring in a raw table: 1..MaxDate
MaxRetry == 3       \* retry_count ranges over 0..MaxRetry
MaxSize == 2        \* params.size ranges over 1..MaxSize
MaxOrders == 3      \* orders issued in one run
MaxBars == 4        \* bars in one run

----------------------------------------------------------------------------
(* Sequences *)

Range(s) == {s[i] : i \in DOMAIN s}

Max(a, b) == IF a >= b THEN a ELSE b

\* positions of the columns labelled name, left to right (pandas label lookup;
\* a label may occur more than once after a rename)
Positions(cols, name) ==
    SelectSeq([j \in 1..Len(cols) |-> j], LAMBDA j : cols[j] = name)

RECURSIVE Flatten(_)
Flatten(ss) == IF ss = <<>> THEN <<>> ELSE Head(ss) \o Flatten(Tail(ss))

----------------------------------------------------------------------------
(* Cells.  A cell is a record [t, v]:                                      *)
(*   raw cells     "num" a number, "numstr" a numeric string ("12.5"),     *)
(*                 "text" a non-numeric, non-date string ("--"),           *)
(*                 "datestr" a date string ("20240102"), "null" None/NaN   *)
(*   typed cells   "num", "nan" (missing-value marker), "ts" Timestamp,    *)
(*                 "nat" (missing timestamp)                               *)

Num(n) == [t |-> "num", v |-> n]
NumStr(n) == [t |-> "numstr", v |-> n]
Text == [t |-> "text", v |-> 0]
DateStr(d) == [t |-> "datestr", v |-> d]
Null == [t |-> "null", v |-> 0]
NaN == [t |-> "nan", v |-> 0]
Ts(d) == [t |-> "ts", v |-> d]
NaT == [t |-> "nat", v |-> 0]

----------------------------------------------------------------------------
(* The canonical schema and the candidate mappings *)

use_cols == <<"datetime", "open", "high", "low", "close", "volume">>

numeric_cols == <<"open", "high", "low", "close", "volume">>

NoMapping == <<>>

BuiltinMaps == <<
    ("riqi" :> "datetime" @@ "kaipan" :> "open" @@ "zuigao" :> "high" @@
     "zuidi" :> "low" @@ "shoupan" :> "close" @@ "chengjiaoliang" :> "volume"),
    ("date" :> "datetime" @@ "open" :> "open" @@ "high" :> "high" @@
     "low" :> "low" @@ "close" :> "close" @@ "volume" :> "volume"),
    ("riqi" :> "datetime" @@ "kaipan" :> "open" @@ "zuigao" :> "high" @@
     "zuidi" :> "low" @@ "shoupan" :> "close" @@ "chengjiaoliang(shou)" :> "volume"),
    ("riqi" :> "datetime" @@ "kaipan" :> "open" @@ "zuigao" :> "high" @@
     "zuidi" :> "low" @@ "shoupan" :> "close" @@ "chengjiaoliang(gu)" :> "volume")
>>

TushareMap ==
    "trade_date" :> "datetime" @@ "open" :> "open" @@ "high" :> "high" @@
    "low" :> "low" @@ "close" :> "close" @@ "vol" :> "volume"

\* candidate_maps after the optional insert(0, mapping); None and {} are falsy
candidate_maps(mp) ==
    IF DOMAIN mp # {} THEN <<mp>> \o BuiltinMaps ELSE BuiltinMaps

\* all(col in df.columns for col in mp.keys())
Matches(mp, cols) == \A k \in DOMAIN mp : k \in Range(cols)

\* a scan that keeps going after a match: the last satisfied candidate wins
RECURSIVE LastMatch(_, _, _)
LastMatch(cands, cols, i) ==
    IF i > Len(cands) THEN 0
    ELSE LET rest == LastMatch(cands, cols, i + 1)
         IN  IF rest # 0 THEN rest
             ELSE IF Matches(cands[i], cols) THEN i ELSE 0

\* for mp in candidate_maps: if all(...): ...; break -- index of the candidate
\* applied, scanning from i; 0 when the loop runs out (the for-else branch)
RECURSIVE FirstMatch(_, _, _)
FirstMatch(cands, cols, i) ==
    IF i > Len(cands) THEN 0
    ELSE IF Matches(cands[i], cols) THEN i
    ELSE FirstMatch(cands, cols, i + 1)

\* df.rename(columns=mp): labels that are keys are replaced, others kept
Rename(cols, mp) ==
    [j \in 1..Len(cols) |-> IF cols[j] \in DOMAIN mp THEN mp[cols[j]] ELSE cols[j]]

\* df[names] for a list of labels: every column carrying each label, in the
\* order of the list; the caller has checked that each label occurs
Select(t, names) ==
    LET idx == Flatten([k \in 1..Len(names) |-> Positions(t.cols, names[k])])
    IN  [cols |-> [k \in 1..Len(idx) |-> t.cols[idx[k]]],
         rows |-> [i \in 1..Len(t.rows) |->
                     [k \in 1..Len(idx) |-> t.rows[i][idx[k]]]]]

\* df[names] raises KeyError when a label is missing
MissingLabel(cols, names) == \E c \in Range(names) : Positions(cols, c) = <<>>

\* df[c] is a DataFrame, not a Series, when the label c occurs more than once
Duplicated(cols, c) == Len(Positions(cols, c)) > 1

----------------------------------------------------------------------------
(* Type conversions *)

\* pd.to_datetime raises on a value it cannot parse
Unparseable(c) == c.t \in {"text", "numstr", "nan"}

\* pd.to_datetime on one value that parses: None/NaN/"" become NaT
to_datetime(c) ==
    CASE c.t \in {"datestr", "num", "ts"} -> Ts(c.v)
      [] OTHER -> NaT

\* a coercion that writes 0 where the value is not a number
to_numeric_fill(c) ==
    CASE c.t \in {"num", "numstr", "datestr"} -> Num(c.v)
      [] OTHER -> Num(0)

\* pd.to_numeric(..., errors="coerce") on one value
to_numeric(c) ==
    CASE c.t \in {"num", "numstr", "datestr"} -> Num(c.v)
      [] OTHER -> NaN

\* df["datetime"] = pd.to_datetime(df["datetime"]), the label occurring once
parse_datetime(t) ==
    LET k == Positions(t.cols, "datetime")[1]
    IN  [t EXCEPT !.rows =
            [i \in 1..Len(t.rows) |->
                [t.rows[i] EXCEPT ![k] = to_datetime(t.rows[i][k])]]]

\* for c in [open, high, low, close, volume]: df[c] = pd.to_numeric(df[c], ...),
\* each label occurring once
coerce_numeric(t) ==
    [t EXCEPT !.rows =
        [i \in 1..Len(t.rows) |->
            [k \in 1..Len(t.cols) |->
                IF t.cols[k] \in Range(numeric_cols)
                    THEN to_numeric(t.rows[i][k])
                    ELSE t.rows[i][k]]]]

----------------------------------------------------------------------------
(* df.sort_values("datetime") *)

Perms(n) == {p \in [1..n -> 1..n] : \A i, j \in 1..n : i # j => p[i] # p[j]}

\* p orders the keys ascending, missing timestamps last
Ascending(keys, p) ==
    \A i, j \in 1..Len(keys) : i < j =>
        LET a == keys[p[i]]
            b == keys[p[j]]
        IN  IF a.t = "nat" THEN b.t = "nat" ELSE (b.t = "nat" \/ a.v <= b.v)

\* p keeps rows with equal keys in their input order
KeepsTies(keys, p) ==
    \A i, j \in 1..Len(keys) : (i < j /\ keys[p[i]] = keys[p[j]]) => p[i] < p[j]

\* the orders sort_values may produce.  kind defaults to "quicksort", which is
\* not a stable sort: rows with equal timestamps may come out in any relative
\* order.  Rows with a missing timestamp are appended in input order.
SortOrders(keys) ==
    {p \in Perms(Len(keys)) :
        /\ Ascending(keys, p)
        /\ \A i, j \in 1..Len(keys) :
              (i < j /\ keys[p[i]].t = "nat" /\ keys[p[j]].t = "nat") => p[i] < p[j]}

sort_values(t, c) ==
    LET k == Positions(t.cols, c)[1]
        keys == [i \in 1..Len(t.rows) |-> t.rows[i][k]]
    IN  {[t EXCEPT !.rows = [i \in 1..Len(t.rows) |-> t.rows[p[i]]]] :
            p \in SortOrders(keys)}

----------------------------------------------------------------------------
(* Results of a call *)

\* a returned table
Ok(t) == [kind |-> "ok", cols |-> t.cols, rows |-> t.rows, exc |-> 0]

\* an exception; cols carries the column list quoted in the message, if any
Raise(kind, cols) == [kind |-> kind, cols |-> cols, rows |-> <<>>, exc |-> 0]

\* the exception raised by the k-th vendor call, re-raised by fetch_daily
Reraise(k) == [kind |-> "VendorError", cols |-> <<>>, rows |-> <<>>, exc |-> k]

NotCalled == Raise("none", <<>>)

\* _normalize_ohlcv(df, mapping): the set of possible outcomes
normalize_ohlcv(t, mp) ==
    LET cands == candidate_maps(mp)
        m == FirstMatch(cands, t.cols, 1)
    IN  IF m = 0 THEN {Raise("SchemaMismatch", t.cols)}
        ELSE
        LET renamed == [t EXCEPT !.cols = Rename(t.cols, cands[m])]
        IN  IF MissingLabel(renamed.cols, use_cols) THEN {Raise("KeyError", <<>>)}
            ELSE
            LET kept == Select(renamed, use_cols)
            IN  IF Duplicated(kept.cols, "datetime")
                    THEN {Raise("ValueError", <<>>)}
                ELSE IF \E i \in 1..Len(kept.rows) :
                            Unparseable(kept.rows[i][Positions(kept.cols, "datetime")[1]])
                    THEN {Raise("DateParseError", <<>>)}
                ELSE IF \E c \in Range(numeric_cols) : Duplicated(kept.cols, c)
                    THEN {Raise("TypeError", <<>>)}
                ELSE
                {Ok(s) : s \in sort_values(coerce_numeric(parse_datetime(kept)), "datetime")}

\* fetch_daily after the retry loop: rename, parse dates, sort, project
tushare_rename_path(t) ==
    LET renamed == [t EXCEPT !.cols = Rename(t.cols, TushareMap)]
    IN  IF MissingLabel(renamed.cols, <<"datetime">>) THEN {Raise("KeyError", <<>>)}
        ELSE IF Duplicated(renamed.cols, "datetime") THEN {Raise("ValueError", <<>>)}
        ELSE IF \E i \in 1..Len(renamed.rows) :
                    Unparseable(renamed.rows[i][Positions(renamed.cols, "datetime")[1]])
            THEN {Raise("DateParseError", <<>>)}
        ELSE
        IF MissingLabel(renamed.cols, use_cols) THEN {Raise("KeyError", <<>>)}
        ELSE {Ok(Select(s, use_cols)) :
                s \in sort_values(parse_datetime(renamed), "datetime")}

----------------------------------------------------------------------------
(* Inputs: raw tables and custom mappings *)

\* every header that occurs in a raw table; a header's position numbers the
\* values of its column, so that the column a value came from stays visible
AllColumns == <<"riqi", "kaipan", "zuigao", "zuidi", "shoupan", "chengjiaoliang",
                "chengjiaoliang(shou)", "chengjiaoliang(gu)",
                "date", "datetime", "trade_date",
                "open", "high", "low", "close", "volume", "vol", "amount">>

ColId(c) == Positions(AllColumns, c)[1]

DateColumns == {"riqi", "date", "datetime", "trade_date"}

BaseColumnLists == {
    <<"riqi", "kaipan", "zuigao", "zuidi", "shoupan", "chengjiaoliang">>,
    <<"riqi", "kaipan", "zuigao", "zuidi", "shoupan", "chengjiaoliang(gu)">>,
    <<"riqi", "kaipan", "zuigao", "zuidi", "shoupan">>,
    <<"date", "open", "high", "low", "close", "volume">>,
    <<"volume", "close", "low", "high", "open", "date">>,
    <<"datetime", "open", "high", "low", "close", "volume">>,
    <<"trade_date", "open", "high", "low", "close", "vol">>,
    <<"trade_date", "open", "high", "low", "close">> }

ExtraColumns == {"chengjiaoliang(shou)", "open", "volume", "amount"}

RawColumnLists ==
    BaseColumnLists \cup
    UNION {{Append(b, e) : e \in ExtraColumns \ Range(b)} : b \in BaseColumnLists}

\* columns in which a cell may fail numeric coercion
FaultyColumns == {"kaipan", "open", "chengjiaoliang", "volume", "vol"}

DateCells == {DateStr(d) : d \in 1..MaxDate} \cup {Null, Text}

NoFault == <<0, "">>

\* the cell of row i under header c
RawCell(i, c, dates, fault) ==
    IF c \in DateColumns THEN dates[i]
    ELSE IF fault = <<i, c>>
        THEN (IF c \in {"chengjiaoliang", "volume", "vol"} THEN Null ELSE Text)
    ELSE IF ColId(c) % 2 = 1 THEN Num(10 * ColId(c) + i)
    ELSE NumStr(10 * ColId(c) + i)

RawTable(cols, dates, fault) ==
    [cols |-> cols,
     rows |-> [i \in 1..Len(dates) |->
                 [k \in 1..Len(cols) |-> RawCell(i, cols[k], dates, fault)]]]

\* the faulty cells tried with a date column: none, or one cell of a faulty
\* column (a table with an unparseable date is tried without one)
Faults(cols, dates) ==
    IF Text \in Range(dates) THEN {NoFault}
    ELSE {NoFault} \cup ((1..Len(dates)) \X (FaultyColumns \cap Range(cols)))

RawTables ==
    UNION { UNION { { RawTable(cols, dates, fault) : fault \in Faults(cols, dates) } :
                    dates \in [1..n -> DateCells] } :
            cols \in RawColumnLists, n \in 0..MaxRows }

\* answers of pro.daily: tables that carry a trade date under some header
VendorTables == {t \in RawTables : Range(t.cols) \cap {"trade_date", "datetime"} # {}}

EmptyTable == [cols |-> <<>>, rows |-> <<>>]

CustomAmount ==
    "riqi" :> "datetime" @@ "kaipan" :> "open" @@ "zuigao" :> "high" @@
    "zuidi" :> "low" @@ "shoupan" :> "close" @@ "amount" :> "volume"

CustomDateOnly == "riqi" :> "datetime"

CustomTushare == "trade_date" :> "datetime" @@ "vol" :> "volume"

Mappings == {NoMapping, CustomAmount, CustomDateOnly, CustomTushare}

RetryCounts == 0..MaxRetry

----------------------------------------------------------------------------
(* The data pipeline as a state machine *)

\* a fetch script is started; no strategy is running
InitData ==
    /\ attempt = 0
    /\ outcomes = <<>>
    /\ result = NotCalled
    /\ again = NotCalled
    /\ strategy = "none"
    /\ size = 1
    /\ bar = 0
    /\ order = 0
    /\ bought = FALSE
    /\ bar_executed = 0
    /\ position = 0
    /\ orders = <<>>
    /\ \/ /\ pc = "normalize"
          /\ df \in RawTables
          /\ mapping \in {m \in Mappings : m = NoMapping \/ DOMAIN m \cap Range(df.cols) # {}}
          /\ retry_count = MaxRetry
       \/ /\ pc = "fetch_daily"
          /\ df = EmptyTable
          /\ mapping = NoMapping
          /\ retry_count \in RetryCounts

\* a call of _normalize_ohlcv(df, mapping)
Normalize ==
    /\ pc = "normalize"
    /\ result' \in normalize_ohlcv(df, mapping)
    /\ pc' = "normalized"
    /\ UNCHANGED <<df, mapping, retry_count, attempt, outcomes, again>>
    /\ UNCHANGED stratVars

\* _normalize_ohlcv applied to the table a first call returned
NormalizeAgain ==
    /\ pc = "normalized"
    /\ result.kind = "ok"
    /\ again' \in normalize_ohlcv([cols |-> result.cols, rows |-> result.rows], NoMapping)
    /\ pc' = "renormalized"
    /\ UNCHANGED <<df, mapping, retry_count, attempt, outcomes, result>>
    /\ UNCHANGED stratVars

\* a failure whose exception is swallowed by every attempt
NeverLastAttempt(a, n) == FALSE

\* if attempt + 1 == retry_count: raise
IsLastAttempt(a, n) == a + 1 = n

\* fetch_daily: pro.daily returns a table; break, then the rename path
VendorCallSucceeds ==
    /\ pc = "fetch_daily"
    /\ attempt < retry_count
    /\ \E t \in VendorTables :
          /\ df' = t
          /\ result' \in tushare_rename_path(t)
    /\ outcomes' = Append(outcomes, "ok")
    /\ pc' = "fetched"
    /\ UNCHANGED <<mapping, retry_count, attempt, again>>
    /\ UNCHANGED stratVars

\* fetch_daily: pro.daily raises; re-raise on the last attempt, else go round
VendorCallFails ==
    /\ pc = "fetch_daily"
    /\ attempt < retry_count
    /\ outcomes' = Append(outcomes, "fail")
    /\ IF IsLastAttempt(attempt, retry_count)
          THEN /\ result' = Reraise(attempt + 1)
               /\ pc' = "fetched"
               /\ UNCHANGED attempt
          ELSE /\ attempt' = attempt + 1
               /\ UNCHANGED <<pc, result>>
    /\ UNCHANGED <<df, mapping, retry_count, again>>
    /\ UNCHANGED stratVars

\* fetch_daily: the loop runs out without break: the for-else branch
LoopElse ==
    /\ pc = "fetch_daily"
    /\ ~(attempt < retry_count)
    /\ result' = Raise("RuntimeError", <<>>)
    /\ pc' = "fetched"
    /\ UNCHANGED <<df, mapping, retry_count, attempt, outcomes, again>>
    /\ UNCHANGED stratVars

NextData ==
    \/ Normalize
    \/ NormalizeAgain
    \/ VendorCallSucceeds
    \/ VendorCallFails
    \/ LoopElse

----------------------------------------------------------------------------
(* The strategies, driven by the backtest engine *)

\* order.status values that end an order's life
Terminal == {"Completed", "Canceled", "Margin", "Rejected"}

Alive(o) == o.status \notin Terminal

NewOrder(isbuy, n) ==
    [isbuy |-> isbuy, size |-> n, filled |-> 0, status |-> "Created", at |-> position]

Abs(n) == IF n < 0 THEN 0 - n ELSE n

\* a backtest run of one strategy is started; no fetch is running
InitStrategy ==
    /\ pc = "idle"
    /\ df = EmptyTable
    /\ mapping = NoMapping
    /\ retry_count = MaxRetry
    /\ attempt = 0
    /\ outcomes = <<>>
    /\ result = NotCalled
    /\ again = NotCalled
    /\ bar = 0
    /\ order = 0
    /\ bought = FALSE
    /\ bar_executed = 0
    /\ position = 0
    /\ orders = <<>>
    /\ strategy \in {"BuyAndHoldStrategy", "RandomTraderStrategy"}
    /\ size \in 1..MaxSize

\* BuyAndHoldStrategy.next on a new bar
BuyAndHoldNext ==
    /\ strategy = "BuyAndHoldStrategy"
    /\ bar < MaxBars
    /\ bar' = bar + 1
    /\ IF order # 0
          THEN UNCHANGED <<order, bought, orders>>
          ELSE IF position = 0 /\ ~bought /\ Len(orders) < MaxOrders
              THEN /\ orders' = Append(orders, NewOrder(TRUE, size))
                   /\ order' = Len(orders) + 1
                   /\ bought' = TRUE
              ELSE UNCHANGED <<order, bought, orders>>
    /\ UNCHANGED <<strategy, size, bar_executed, position>>
    /\ UNCHANGED dataVars

\* RandomTraderStrategy.next on a new bar; draw is random.random() < prob
RandomTraderNext ==
    /\ strategy = "RandomTraderStrategy"
    /\ bar < MaxBars
    /\ bar' = bar + 1
    /\ \E draw \in BOOLEAN :
          IF order # 0 \/ ~draw \/ Len(orders) >= MaxOrders
              THEN UNCHANGED <<order, orders>>
              ELSE /\ orders' = Append(orders,
                          IF position = 0 THEN NewOrder(TRUE, size)
                                          ELSE NewOrder(FALSE, Abs(position)))
                   /\ order' = Len(orders) + 1
    /\ UNCHANGED <<strategy, size, bought, bar_executed, position>>
    /\ UNCHANGED dataVars

\* BaseStrategy.notify_order for order o, whose status the broker has just
\* set to s and of which it has just executed q units
notify_order(o, s, q) ==
    /\ orders' = [orders EXCEPT ![o].status = s, ![o].filled = @ + q]
    /\ position' = IF orders[o].isbuy THEN position + q ELSE position - q
    /\ IF s \in {"Submitted", "Accepted"}
          THEN UNCHANGED <<order, bar_executed>>
          ELSE /\ bar_executed' = IF s = "Completed" THEN bar ELSE bar_executed
               /\ order' = 0
    /\ UNCHANGED <<strategy, size, bar, bought>>
    /\ UNCHANGED dataVars

\* the broker takes the order in
NotifySubmitted ==
    \E o \in 1..Len(orders) :
        /\ orders[o].status = "Created"
        /\ notify_order(o, "Submitted", 0)

NotifyAccepted ==
    \E o \in 1..Len(orders) :
        /\ orders[o].status = "Submitted"
        /\ notify_order(o, "Accepted", 0)

\* the broker executes a part of the order
NotifyPartial ==
    \E o \in 1..Len(orders) :
        /\ orders[o].status \in {"Accepted", "Partial"}
        /\ \E q \in 1..(orders[o].size - orders[o].filled - 1) :
              notify_order(o, "Partial", q)

\* the broker executes what is left of the order
NotifyCompleted ==
    \E o \in 1..Len(orders) :
        /\ orders[o].status \in {"Accepted", "Partial"}
        /\ notify_order(o, "Completed", orders[o].size - orders[o].filled)

\* the broker drops the order: rejected on submission, or cancelled or out of
\* cash once accepted
NotifyDropped ==
    \E o \in 1..Len(orders) :
        \/ /\ orders[o].status = "Submitted"
           /\ notify_order(o, "Rejected", 0)
        \/ /\ orders[o].status \in {"Accepted", "Partial"}
           /\ \E s \in {"Canceled", "Margin"} : notify_order(o, s, 0)

NextStrategy ==
    \/ BuyAndHoldNext
    \/ RandomTraderNext
    \/ NotifySubmitted
    \/ NotifyAccepted
    \/ NotifyPartial
    \/ NotifyCompleted
    \/ NotifyDropped

----------------------------------------------------------------------------
(* Specifications *)

\* the fetch scripts
Spec == InitData /\ [][NextData]_vars

\* a backtest run of one strategy
SpecStrategy == InitStrategy /\ [][NextStrategy]_vars

----------------------------------------------------------------------------
(* Properties of the data pipeline *)

Normalized == pc \in {"normalized", "renormalized"}

\* the candidates satisfied by the raw table, by index in the candidate list
Satisfied == {i \in 1..Len(candidate_maps(mapping)) :
                Matches(candidate_maps(mapping)[i], df.cols)}

\* the lowest-index satisfied candidate
Earliest == candidate_maps(mapping)[CHOOSE i \in Satisfied : \A j \in Satisfied : i <= j]

\* the raw header that the candidate mp turns into the canonical name c
SourceOf(mp, c) ==
    IF \E k \in DOMAIN mp : mp[k] = c /\ k \in Range(df.cols)
        THEN CHOOSE k \in DOMAIN mp : mp[k] = c /\ k \in Range(df.cols)
        ELSE c

\* the raw cell of input row i that feeds the canonical column c under mp
\* (a cell unlike any other when the table has no such column)
SourceCell(mp, i, c) ==
    LET at == Positions(df.cols, SourceOf(mp, c))
    IN  IF at = <<>> THEN [t |-> "absent", v |-> 0 - 1] ELSE df.rows[i][at[1]]

DateKeys(mp) == [i \in 1..Len(df.rows) |-> SourceCell(mp, i, "datetime")]

LeqDatetime(a, b) == a.t = "ts" /\ b.t = "ts" /\ a.v <= b.v

\* C1: every returned table has exactly the six canonical columns, each once,
\* in the canonical order (for _normalize_ohlcv and for fetch_daily).
C1_ColumnInvariant ==
    result.kind = "ok" => result.cols = use_cols

\* C2: in every returned table each adjacent pair of rows satisfies
\* row[i].datetime <= row[i+1].datetime.
C2_OrderingInvariant ==
    result.kind = "ok" =>
        \A i \in 1..(Len(result.rows) - 1) :
            LeqDatetime(result.rows[i][Positions(result.cols, "datetime")[1]],
                        result.rows[i + 1][Positions(result.cols, "datetime")[1]])

\* C3: _normalize_ohlcv applied to a table it returned succeeds and returns
\* that table again.
C3_Idempotence ==
    pc = "renormalized" =>
        /\ again.kind = "ok"
        /\ again.cols = result.cols
        /\ again.rows = result.rows

\* C4: the call raises the schema-mismatch error, quoting the raw column list,
\* exactly when no candidate is satisfied; when a candidate is satisfied the
\* call never fails for a missing column.
C4_SchemaMismatch ==
    Normalized =>
        /\ Satisfied = {} => result = Raise("SchemaMismatch", df.cols)
        /\ Satisfied # {} => result.kind \notin {"SchemaMismatch", "KeyError"}

\* C5: the candidate applied is the lowest-index candidate whose keys are all
\* among the raw columns: every value of a returned table comes from the raw
\* column that this candidate maps to its canonical column.
C5_FirstMatchPriority ==
    (Normalized /\ result.kind = "ok") =>
        /\ Len(result.rows) = Len(df.rows)
        /\ \E p \in Perms(Len(df.rows)) :
              \A i \in 1..Len(df.rows), j \in 1..Len(use_cols) :
                  result.rows[i][j].v = SourceCell(Earliest, p[i], use_cols[j]).v

\* C5 witness: a table satisfying two candidates has been normalized.
C5_Witness ==
    /\ Normalized
    /\ result.kind = "ok"
    /\ Cardinality(Satisfied) >= 2
    /\ Len(df.rows) >= 1

\* each canonical name labels exactly one column once the candidate is applied
WellFormed(mp) ==
    \A c \in Range(use_cols) : Len(Positions(Rename(df.cols, mp), c)) = 1

DatesParse == \A i \in 1..Len(df.rows), k \in 1..Len(df.cols) :
                 df.cols[k] \in DateColumns => df.rows[i][k].t = "datestr"

\* C6: for a raw table that satisfies a candidate and whose dates parse, cells
\* that are not numeric never make the call fail or drop a row: the call
\* succeeds whenever the renamed table has each canonical column once, the
\* output has as many rows as the input, exactly the cells that are not
\* numeric hold the missing-value marker and every other cell keeps its value.
C6_MissingValueTolerance ==
    (Normalized /\ Satisfied # {} /\ DatesParse) =>
        /\ result.kind = "ok" <=> WellFormed(Earliest)
        /\ result.kind = "ok" =>
              /\ Len(result.rows) = Len(df.rows)
              /\ \E p \in Perms(Len(df.rows)) :
                    \A i \in 1..Len(df.rows), j \in 2..Len(use_cols) :
                        LET raw == SourceCell(Earliest, p[i], use_cols[j])
                        IN  result.rows[i][j] =
                                IF raw.t \in {"num", "numstr"} THEN Num(raw.v) ELSE NaN

\* C6 witness: a table of two rows with a non-numeric cell has been normalized.
C6_Witness ==
    /\ Normalized
    /\ result.kind = "ok"
    /\ DatesParse
    /\ Len(df.rows) = 2
    /\ \E i \in 1..2, j \in 2..Len(use_cols) :
          /\ SourceCell(Earliest, i, use_cols[j]).t = "text"
          /\ \E r \in 1..2 : result.rows[r][j] = NaN

AllFail == \A i \in 1..Len(outcomes) : outcomes[i] = "fail"

\* success is only ever the last vendor call made
StopsAtSuccess == \A i \in 1..(Len(outcomes) - 1) : outcomes[i] = "fail"

\* C7 as claimed: fetch_daily makes at most retry_count vendor calls, none
\* after the first success, and when all attempts fail it raises the last
\* attempt's exception, for every retry_count.
C7_BoundedRetry ==
    /\ Len(outcomes) <= retry_count
    /\ StopsAtSuccess
    /\ (pc = "fetched" /\ AllFail) => result = Reraise(retry_count)

\* C7 amended: fetch_daily always reaches its end; it makes at most
\* max(retry_count, 0) vendor calls and none after the first success; for
\* retry_count >= 1, when all attempts fail it raises the exception of attempt
\* retry_count and returns no table; for retry_count <= 0 it makes no call
\* and raises the generic RuntimeError.
C7_BoundedRetryAmended ==
    /\ Len(outcomes) <= Max(retry_count, 0)
    /\ StopsAtSuccess
    /\ pc = "fetch_daily" => (attempt = Len(outcomes) /\ ENABLED NextData)
    /\ (pc = "fetched" /\ AllFail /\ retry_count >= 1) =>
            (Len(outcomes) = retry_count /\ result = Reraise(retry_count))
    /\ (pc = "fetched" /\ retry_count <= 0) =>
            (outcomes = <<>> /\ result = Raise("RuntimeError", <<>>))
    /\ (pc = "fetched" /\ ~AllFail) => result.kind \notin {"VendorError", "RuntimeError"}

\* C7 witness: every one of several attempts failed and the last was re-raised.
C7_Witness ==
    /\ pc = "fetched"
    /\ retry_count >= 2
    /\ Len(outcomes) = retry_count
    /\ AllFail
    /\ result = Reraise(retry_count)

\* C8: rows with equal datetime values keep their relative input order.
C8_StableOrdering ==
    (Normalized /\ result.kind = "ok") =>
        \E p \in Perms(Len(df.rows)) :
            /\ KeepsTies(DateKeys(Earliest), p)
            /\ \A i \in 1..Len(df.rows), j \in 1..Len(use_cols) :
                  result.rows[i][j].v = SourceCell(Earliest, p[i], use_cols[j]).v

----------------------------------------------------------------------------
(* Properties of the strategies *)

AliveOrders == {o \in 1..Len(orders) : Alive(orders[o])}

RECURSIVE SumLeft(_)
SumLeft(S) ==
    IF S = {} THEN 0
    ELSE LET o == CHOOSE x \in S : TRUE
         IN  (orders[o].size - orders[o].filled) + SumLeft(S \ {o})

\* quantity still to be sold by live sell orders
LiveSellQuantity == SumLeft({o \in AliveOrders : ~orders[o].isbuy})

\* C9: no order is issued while an earlier one is alive, and self.order is
\* cleared only when the tracked order is terminal: at most one order is
\* alive, and it is the one self.order tracks.
C9_NoDuplicateOrders ==
    /\ Cardinality(AliveOrders) <= 1
    /\ \A o \in AliveOrders : order = o

\* C10: RandomTraderStrategy sells only with a position open and buys only
\* with none, its live sell orders never exceed the open position, and the
\* position never becomes negative.
C10_NoShortPosition ==
    strategy = "RandomTraderStrategy" =>
        /\ \A o \in 1..Len(orders) :
              IF orders[o].isbuy THEN orders[o].at = 0 ELSE orders[o].at > 0
        /\ LiveSellQuantity <= position
        /\ position >= 0

====
